---- MODULE Spec2Model ----
(***************************************************************************)
(* State-machine model of resux.git.github: the _PaginationAdapter that    *)
(* bridges PyGithub's blocking PaginatedList into the asynchronous         *)
(* Pagination protocol, and the Repo / Client facade calls built on        *)
(* asyncio.to_thread.  Coroutines run on one event loop ("loop"); a call   *)
(* handed to asyncio.to_thread runs on a worker thread ("worker") while    *)
(* the awaiting coroutine is suspended.                                    *)
(***************************************************************************)
EXTENDS Integers, Sequences, FiniteSets, TLC

\* ------------------------------------------------------------------ bounds
\* Largest number of items the provider's collection grows to.
MaxLen == 2
\* Cap on the number of factory (init) invocations that are counted.
MaxInit == 2
\* Largest number of entries in the listing of one directory.
MaxEntries == 3
\* Largest number of reads of collection properties.
MaxReads == 2
\* Cap on the number of expansion calls of one get_files() that are followed.
MaxExpand == 4

\* ------------------------------------------------------- program constants
\* Python's None: the default handed to next(items, None).
None == 0
\* The HTTP status get_readme tests for.
HTTP_NOT_FOUND == 404

\* Coroutines sharing one adapter on one event loop.
Tasks == {"c1", "c2"}

\* Raw provider items are opaque GithubObject instances, named 1..MaxLen.
RawItems == 1..MaxLen

\* String keys a caller may pass to get(): the sha / full name of raw item 1,
\* of raw item 2, and a key that names nothing.
Keys == {"key1", "key2", "missing"}

\* ------------------------------------------------------------- exceptions
NoError == [exc |-> "", status |-> 0]
UnknownObjectException == [exc |-> "UnknownObjectException", status |-> HTTP_NOT_FOUND]
\* A provider fault that is not the not-found condition (a rate limit).
GithubException == [exc |-> "GithubException", status |-> 403]
IndexError == [exc |-> "IndexError", status |-> 0]
TypeError == [exc |-> "TypeError", status |-> 0]

\* What a blocking provider call may do besides answering: fail with a fault
\* (rate limit, authentication, network).
Faults == {GithubException}
Outcomes == {NoError} \cup Faults

\* One provider call, and the thread it ran on.
Call(name, ctx) == [call |-> name, ctx |-> ctx]

\* ------------------------------------------------- domain model mapping
\* Commit.from_raw / Tag.from_raw / Repo.from_raw: cls(raw), a wrapper
\* holding exactly the raw item.
from_raw(raw) == [wrapped |-> raw]

\* [from_raw(raw) for raw in raws]
\* (faulty variant: the models in reverse order)
MapAllReversed(raws) == [i \in 1..Len(raws) |-> from_raw(raws[Len(raws) + 1 - i])]

MapAll(raws) == [i \in 1..Len(raws) |-> from_raw(raws[i])]

\* A raw item whose truth value is false: an object of a record type that
\* defines __bool__ or __len__ (a stub's 0, an empty container).
FalsyRaw == None - 1

\* Truthiness of the value bound by `while raw := ...`: None is falsy, a
\* GithubObject (no __bool__, no __len__) is truthy.
Truthy(raw) == raw # None /\ raw # FalsyRaw

VARIABLES
  remote,       \* the provider's current listing, newest first
  readme,       \* whether the repository has a readme on the provider
  get_by_key,   \* whether the adapter was built with a get_by_key function
  cached_list,  \* the cached_property _list: [set, items]
  init_calls,   \* number of times the factory self.init() was invoked
  init_fails,   \* number of those invocations that raised
  co,           \* per coroutine: the operation in progress and its result
  tree,         \* the repository's directory tree on the provider
  gen,          \* the async generator of Repo.get_files and what it yielded
  adapters,     \* the adapters the facade's collection properties have built
  reads,        \* the property reads made so far and the adapter each returned
  conflict_strategy, \* the ConflictStrategy summarize was called with
  exists,       \* per repository: whether its project is in the workspace
  sr,           \* per summarize_repo task: its position in _can_write
  conflict_lock, \* the module's asyncio.Lock: [locked, waiters]
  disk,         \* per id: the resource in the collection's file, 0 for no file
  res_cache,    \* ResourceCollection._cache
  all_cached,   \* ResourceCollection._all_cached
  cwd_in_path,  \* whether the working directory is the collection's directory
  hist,         \* per id: the last set or delete that completed
  last          \* the last operation on the collection and its outcome

vars == <<remote, readme, get_by_key, cached_list, init_calls, init_fails, co>>

\* The state of Repo.get_files, and of the facade's collection properties.
fvars == <<tree, gen>>
pvars == <<adapters, reads>>

\* Every variable.
\* The state of ConflictStrategy._can_write, and of a ResourceCollection.
cvars == <<conflict_strategy, exists, sr, conflict_lock>>
rvars == <<disk, res_cache, all_cached, cwd_in_path, hist, last>>

allvars == <<vars, fvars, pvars, cvars, rvars>>

Idle ==
  [pc |-> "idle", op |-> "", idx |-> -1, skey |-> "", start |-> -1, stop |-> -1,
   call |-> "", args |-> <<>>, lst |-> <<>>, pos |-> 0, ret |-> <<>>, count |-> -1,
   err |-> NoError, log |-> <<>>, maps |-> 0, raised |-> NoError]

\* ------------------------------------------- remote provider client (PyGithub)
\* What a blocking call gives back: the raw items it answered with, or the
\* exception it raised.
Answer(raws) == [raws |-> raws, err |-> NoError]
Raise(err) == [raws |-> <<>>, err |-> err]

\* self.init(): the PaginatedList the factory returns for the listing the
\* provider holds at that moment.
RawPagination(data) == data

\* PaginatedList.totalCount
totalCount(lst) == Len(lst)

\* PaginatedList.__getitem__(int): the item, or the provider's IndexError.
RawGetItem(lst, i) ==
  IF i >= 0 /\ i < Len(lst) THEN Answer(<<lst[i + 1]>>) ELSE Raise(IndexError)

\* PaginatedList.__getitem__(slice(start, stop)): the contiguous run, cut at
\* the end of the list.
RawGetSlice(lst, start, stop) ==
  Answer(SubSeq(lst, start + 1, IF stop < Len(lst) THEN stop ELSE Len(lst)))

\* next(items, None) on the iterator made by iter(self._list), standing
\* before position pos.
RawNext(lst, pos) == Answer(<<IF pos < Len(lst) THEN lst[pos + 1] ELSE None>>)

\* The raw item a string key names.
KeyTarget(key) == CASE key = "key1" -> 1 [] key = "key2" -> 2 [] OTHER -> None

\* get_commit / get_repo: the named item when the provider holds it, else the
\* provider's not-found exception.
RawLookup(data, key) ==
  IF \E i \in 1..Len(data) : data[i] = KeyTarget(key)
    THEN Answer(<<KeyTarget(key)>>)
    ELSE Raise(UnknownObjectException)

\* The raw objects wrapped.get_readme() and _github.get_user() answer with.
RawReadme == MaxLen + 1
RawUser == MaxLen + 2

\* wrapped.get_readme(): the readme file, or the provider's not-found
\* exception when the repository has none.
RawGetReadme(has_readme) ==
  IF has_readme THEN Answer(<<RawReadme>>) ELSE Raise(UnknownObjectException)

\* ------------------------------------------------------ _PaginationAdapter
\* The cached_property _list, read on the calling thread: the memoized list,
\* or self.init() whose result is stored only when it returns.  fault is what
\* the factory does when it is invoked.
\* (faulty variant: a plain property, nothing memoized)
ListAccessNoMemo(cache, data, fault) ==
  IF fault # NoError
    THEN [cache |-> cache, lst |-> <<>>, err |-> fault, called |-> 1]
    ELSE [cache |-> cache, lst |-> RawPagination(data), err |-> NoError, called |-> 1]

\* (faulty variant: a memoized list that no longer matches the provider's
\* listing is built again)
ListAccessRefetch(cache, data, fault) ==
  IF cache.set /\ cache.items = data
    THEN [cache |-> cache, lst |-> cache.items, err |-> NoError, called |-> 0]
    ELSE IF fault # NoError
      THEN [cache |-> cache, lst |-> <<>>, err |-> fault, called |-> 1]
      ELSE [cache |-> [set |-> TRUE, items |-> RawPagination(data)],
            lst |-> RawPagination(data), err |-> NoError, called |-> 1]

\* (faulty variant: a factory that raised leaves an empty list memoized)
ListAccessMemoFailure(cache, data, fault) ==
  IF cache.set
    THEN [cache |-> cache, lst |-> cache.items, err |-> NoError, called |-> 0]
    ELSE IF fault # NoError
      THEN [cache |-> [set |-> TRUE, items |-> <<>>], lst |-> <<>>, err |-> fault,
            called |-> 1]
      ELSE [cache |-> [set |-> TRUE, items |-> RawPagination(data)],
            lst |-> RawPagination(data), err |-> NoError, called |-> 1]

ListAccess(cache, data, fault) ==
  IF cache.set
    THEN [cache |-> cache, lst |-> cache.items, err |-> NoError, called |-> 0]
    ELSE IF fault # NoError
      THEN [cache |-> cache, lst |-> <<>>, err |-> fault, called |-> 1]
      ELSE [cache |-> [set |-> TRUE, items |-> RawPagination(data)],
            lst |-> RawPagination(data), err |-> NoError, called |-> 1]

\* _list left alone.
NotRead(cache) == [cache |-> cache, lst |-> <<>>, err |-> NoError, called |-> 0]

\* What get(key) with a string key does to _list: `case int():` does not
\* match, so self._list is not evaluated.
\* (faulty variant: self._list is evaluated before the key's type is tested)
StrKeyAccessList(cache, data) == ListAccess(cache, data, NoError)

StrKeyAccess(cache, data) == NotRead(cache)

\* The provider calls a read of _list makes: the factory, on the event loop.
InitLog(acc) == IF acc.called = 1 THEN <<Call("init", "loop")>> ELSE <<>>

\* A coroutine that raised err.
Raised(c, err, log) == [c EXCEPT !.pc = "done", !.err = err, !.log = log]

\* __len__: self._list.totalCount, all of it on the calling thread.
LenResult(c, acc, fault) ==
  IF acc.err # NoError THEN Raised(c, acc.err, InitLog(acc))
  ELSE IF fault # NoError
    THEN Raised(c, fault, InitLog(acc) \o <<Call("totalCount", "loop")>>)
    ELSE [c EXCEPT !.pc = "done", !.count = totalCount(acc.lst),
                   !.log = InitLog(acc) \o <<Call("totalCount", "loop")>>]

\* await asyncio.to_thread(call, *args): the call is handed to a worker
\* thread and the coroutine suspends; lst is the list a bound method of
\* self._list belongs to.
ToThread(c, call, args, lst, log) ==
  [c EXCEPT !.pc = "await", !.call = call, !.args = args, !.lst = lst, !.log = log]

\* get(key), up to its first suspension.
\* (faulty variant: `case str():` without its guard)
GetStartNoGuard(c, key_is_int, has_key, acc) ==
  IF key_is_int
    THEN IF acc.err # NoError
           THEN Raised(c, acc.err, InitLog(acc))
           ELSE ToThread(c, "__getitem__", <<c.idx>>, acc.lst, InitLog(acc))
    ELSE ToThread(c, "get_by_key", <<>>, <<>>, <<>>)

GetStart(c, key_is_int, has_key, acc) ==
  IF key_is_int
    THEN IF acc.err # NoError
           THEN Raised(c, acc.err, InitLog(acc))
           ELSE ToThread(c, "__getitem__", <<c.idx>>, acc.lst, InitLog(acc))
    ELSE IF has_key
           THEN ToThread(c, "get_by_key", <<>>, <<>>, <<>>)
           ELSE Raised(c, TypeError, <<>>)

\* slice(start, stop) up to its suspension: the slice call is handed to a
\* worker thread.
\* (faulty variant: slice(stop), as all() does)
SliceStartFromZero(c, acc) ==
  IF acc.err # NoError
    THEN Raised(c, acc.err, InitLog(acc))
    ELSE ToThread(c, "__getitem__", <<0, c.stop>>, acc.lst, InitLog(acc))

\* (faulty variant: stop taken as inclusive)
SliceStartInclusive(c, acc) ==
  IF acc.err # NoError
    THEN Raised(c, acc.err, InitLog(acc))
    ELSE ToThread(c, "__getitem__", <<c.start, c.stop + 1>>, acc.lst, InitLog(acc))

SliceStart(c, acc) ==
  IF acc.err # NoError
    THEN Raised(c, acc.err, InitLog(acc))
    ELSE ToThread(c, "__getitem__", <<c.start, c.stop>>, acc.lst, InitLog(acc))

\* all(): self._list.__getitem__ is read, then len(self) runs on the calling
\* thread, then slice(len(self)) is handed to a worker thread.
\* (faulty variant: slice(len(self) - 1), the last item is left out)
AllStartShort(c, acc, acc2, fault) ==
  IF acc.err # NoError THEN Raised(c, acc.err, InitLog(acc))
  ELSE IF acc2.err # NoError
    THEN Raised(c, acc2.err, InitLog(acc) \o InitLog(acc2))
  ELSE IF fault # NoError
    THEN Raised(c, fault,
                InitLog(acc) \o InitLog(acc2) \o <<Call("totalCount", "loop")>>)
    ELSE ToThread(c, "__getitem__",
                  <<0, IF totalCount(acc2.lst) > 0 THEN totalCount(acc2.lst) - 1 ELSE 0>>,
                  acc.lst,
                  InitLog(acc) \o InitLog(acc2) \o <<Call("totalCount", "loop")>>)

AllStart(c, acc, acc2, fault) ==
  IF acc.err # NoError THEN Raised(c, acc.err, InitLog(acc))
  ELSE IF acc2.err # NoError
    THEN Raised(c, acc2.err, InitLog(acc) \o InitLog(acc2))
  ELSE IF fault # NoError
    THEN Raised(c, fault,
                InitLog(acc) \o InitLog(acc2) \o <<Call("totalCount", "loop")>>)
    ELSE ToThread(c, "__getitem__", <<0, totalCount(acc2.lst)>>, acc.lst,
                  InitLog(acc) \o InitLog(acc2) \o <<Call("totalCount", "loop")>>)

\* __aiter__ up to the first suspension: items = iter(self._list) on the
\* calling thread, then next(items, None) is handed to a worker thread.
IterStart(c, acc) ==
  IF acc.err # NoError
    THEN Raised(c, acc.err, InitLog(acc))
    ELSE ToThread([c EXCEPT !.pos = 0], "next", <<>>, acc.lst, InitLog(acc))

\* The log of a coroutine whose call on the worker thread has ended.
Ran(c) == c.log \o <<Call(c.call, "worker")>>

\* get(key) once the worker thread's call has ended with out: an exception is
\* raised again in the coroutine as it is, else the raw item is mapped.
\* (faulty variant: the exception is swallowed)
GetResumeSuppress(c, out) ==
  IF out.err # NoError
    THEN [c EXCEPT !.pc = "done", !.log = Ran(c)]
    ELSE [c EXCEPT !.pc = "done", !.ret = <<from_raw(out.raws[1])>>, !.maps = 1,
                   !.log = Ran(c)]

\* (faulty variant: the lookup's result is taken for a model already and
\* mapped again)
GetResumeMapTwice(c, out) ==
  IF out.err # NoError
    THEN Raised(c, out.err, Ran(c))
    ELSE [c EXCEPT !.pc = "done", !.ret = <<from_raw(from_raw(out.raws[1]))>>,
                   !.maps = 2, !.log = Ran(c)]

GetResume(c, out) ==
  IF out.err # NoError
    THEN Raised(c, out.err, Ran(c))
    ELSE [c EXCEPT !.pc = "done", !.ret = <<from_raw(out.raws[1])>>, !.maps = 1,
                   !.log = Ran(c)]

\* slice(start, stop) and all() once the worker thread's call has ended.
SliceResume(c, out) ==
  IF out.err # NoError
    THEN Raised(c, out.err, Ran(c))
    ELSE [c EXCEPT !.pc = "done", !.ret = MapAll(out.raws), !.maps = Len(out.raws),
                   !.log = Ran(c)]

\* One turn of `while raw := await asyncio.to_thread(next, items, None)`:
\* a truthy raw is mapped and yielded and the next advance is handed to a
\* worker thread; a falsy one ends the generator; an exception leaves it.
\* (faulty variant: a failed advance is skipped and the loop goes on)
IterResumeSkipFailed(c, out) ==
  IF out.err # NoError
    THEN [c EXCEPT !.pos = c.pos + 1, !.log = Ran(c)]
    ELSE IF Truthy(out.raws[1])
      THEN [c EXCEPT !.ret = Append(c.ret, from_raw(out.raws[1])), !.pos = c.pos + 1,
                     !.maps = c.maps + 1, !.log = Ran(c)]
      ELSE [c EXCEPT !.pc = "done", !.log = Ran(c)]

\* (faulty variant: the cursor is not kept between turns)
IterResumeNoAdvance(c, out) ==
  IF out.err # NoError
    THEN Raised(c, out.err, Ran(c))
    ELSE IF Truthy(out.raws[1])
      THEN [c EXCEPT !.ret = Append(c.ret, from_raw(out.raws[1])),
                     !.maps = c.maps + 1, !.log = Ran(c)]
      ELSE [c EXCEPT !.pc = "done", !.log = Ran(c)]

IterResume(c, out) ==
  IF out.err # NoError
    THEN Raised(c, out.err, Ran(c))
    ELSE IF Truthy(out.raws[1])
      THEN [c EXCEPT !.ret = Append(c.ret, from_raw(out.raws[1])), !.pos = c.pos + 1,
                     !.maps = c.maps + 1, !.log = Ran(c)]
      ELSE [c EXCEPT !.pc = "done", !.log = Ran(c)]

\* ------------------------------------------------------------------ facade
\* File(file) and User(user): wrappers holding exactly the raw object.
File(file) == [wrapped |-> file]
User(user) == [wrapped |-> user]

\* Repo.get_readme once the worker thread's call has ended: an
\* UnknownObjectException with status 404 gives None, any other exception is
\* raised again.
\* (faulty variant: no except clause)
ReadmeResumeNoExcept(c, out) ==
  IF out.err = NoError
    THEN [c EXCEPT !.pc = "done", !.ret = <<File(out.raws[1])>>, !.log = Ran(c)]
    ELSE Raised(c, out.err, Ran(c))

\* (faulty variant: `except Exception: return None`)
ReadmeResumeCatchAll(c, out) ==
  IF out.err = NoError
    THEN [c EXCEPT !.pc = "done", !.ret = <<File(out.raws[1])>>, !.log = Ran(c)]
    ELSE [c EXCEPT !.pc = "done", !.ret = <<>>, !.log = Ran(c)]

ReadmeResume(c, out) ==
  IF out.err = NoError
    THEN [c EXCEPT !.pc = "done", !.ret = <<File(out.raws[1])>>, !.log = Ran(c)]
  ELSE IF out.err.exc = "UnknownObjectException" /\ out.err.status = HTTP_NOT_FOUND
    THEN [c EXCEPT !.pc = "done", !.ret = <<>>, !.log = Ran(c)]
    ELSE Raised(c, out.err, Ran(c))

\* Client.get_user once the worker thread's call has ended.
UserResume(c, out) ==
  IF out.err # NoError
    THEN Raised(c, out.err, Ran(c))
    ELSE [c EXCEPT !.pc = "done", !.ret = <<User(out.raws[1])>>, !.log = Ran(c)]

\* ------------------------------------------------------- Repo.get_files
\* A ContentFile the provider lists in a directory.
Entry(path, type) == [path |-> path, type |-> type]

\* wrapped.get_dir_contents(path): the listing of the directory, in the
\* provider's order.  Directories b and a/d hold one file each.
RawGetDirContents(t, path) ==
  Answer(CASE path = "" -> t.root
           [] path = "a" -> t.a
           [] path = "b" -> <<Entry("b/e.txt", "file")>>
           [] path = "a/d" -> <<Entry("a/d/f.txt", "file")>>
           [] OTHER -> <<>>)

\* The generator before its first step.
GenIdle ==
  [pc |-> "idle", paths |-> <<>>, pending |-> <<>>, yielded |-> <<>>,
   expands |-> <<>>, err |-> NoError]

\* paths.pop(): the last path of the work list is taken off.
\* (faulty variant: paths.pop(0))
PopFirst(paths) == [top |-> Head(paths), rest |-> Tail(paths)]

\* (faulty variant: paths[-1], the path is read but stays on the work list)
PopPeek(paths) == [top |-> paths[Len(paths)], rest |-> paths]

Pop(paths) ==
  [top |-> paths[Len(paths)], rest |-> SubSeq(paths, 1, Len(paths) - 1)]

\* file.path for file in files if file.type == "dir"
DirPaths(files) ==
  LET dirs == SelectSeq(files, LAMBDA file : file.type = "dir")
  IN [i \in 1..Len(dirs) |-> dirs[i].path]

\* paths.extend(...): the directories of the listing go onto the work list in
\* the listing's order.
\* (faulty variant: only the first directory of a listing is kept)
ExtendFirstOnly(paths, files) ==
  IF DirPaths(files) = <<>> THEN paths ELSE Append(paths, Head(DirPaths(files)))

Extend(paths, files) == paths \o DirPaths(files)

\* filter(lambda file: file.type == "file", files)
\* (faulty variant: everything that is not a directory is taken for a file)
FilesOfNotDir(files) == SelectSeq(files, LAMBDA file : file.type # "dir")

FilesOf(files) == SelectSeq(files, LAMBDA file : file.type = "file")

\* `while paths:`: with an empty work list the generator ends; else the last
\* path is popped and its expansion is handed to a worker thread.
Loop(g) ==
  IF g.paths = <<>>
    THEN [g EXCEPT !.pc = "done"]
    ELSE [g EXCEPT !.pc = "await", !.paths = Pop(g.paths).rest,
                   !.expands = Append(g.expands, Pop(g.paths).top)]

\* The first step of the generator: paths = [""], then the loop.
GetFilesStart(g) == Loop([g EXCEPT !.paths = <<"">>])

\* The `for` loop over the files of the listing: the next one is yielded as a
\* File and the generator suspends; after the last one the while loop goes on.
YieldNext(g) ==
  IF g.pending # <<>>
    THEN [g EXCEPT !.pc = "yield", !.yielded = Append(g.yielded, File(Head(g.pending))),
                   !.pending = Tail(g.pending)]
    ELSE Loop(g)

\* The generator resumed with the listing its expansion call gave back: the
\* directories are pushed, then the files are yielded one by one; an exception
\* of the call leaves the generator.
\* (faulty variant: the next expansion is dispatched before the files of the
\* listing are yielded)
ExpandResumeEager(g, out) ==
  IF out.err # NoError
    THEN [g EXCEPT !.pc = "done", !.err = out.err]
    ELSE LET g1 == [g EXCEPT !.paths = Extend(g.paths, out.raws),
                             !.pending = g.pending \o FilesOf(out.raws)]
         IN IF g1.paths # <<>> THEN Loop(g1) ELSE YieldNext(g1)

ExpandResume(g, out) ==
  IF out.err # NoError
    THEN [g EXCEPT !.pc = "done", !.err = out.err]
    ELSE YieldNext([g EXCEPT !.paths = Extend(g.paths, out.raws),
                             !.pending = FilesOf(out.raws)])

\* --------------------------------------------------------------- the machine
Unset == [set |-> FALSE, items |-> <<>>]

\* Repo.get_files not called, no collection property read.
FilesOff == tree = [root |-> <<>>, a |-> <<>>] /\ gen = GenIdle
PropsOff == adapters = <<>> /\ reads = <<>>

\* The repositories summarize was asked for: one summarize_repo task each.
Repos == {"r1", "r2", "r3"}

\* The ids of the collection's resources.
Ids == {"p", "q"}

\* A summarize_repo task not started; the lock free.
SrIdle == [pc |-> "idle", can_write |-> FALSE, checked |-> FALSE]
Unlocked == [locked |-> FALSE, waiters |-> <<>>]

\* The contents a resource file can have; 0 stands for "no file".
MaxVer == 2
Vers == 1..MaxVer

\* The values of a _cache entry: the id is not a key, None (the file was seen,
\* not read), _MISSING, or the resource that was loaded.
NoKey == [kind |-> "nokey", val |-> 0]
NoneEntry == [kind |-> "none", val |-> 0]
MISSING == [kind |-> "missing", val |-> 0]
Loaded(v) == [kind |-> "res", val |-> v]

\* ResourceCollection.__init__: no operation called yet, nothing written or
\* removed through the collection yet.
NoOp == [op |-> "", id |-> "", res |-> 0, ids |-> {}, err |-> ""]
NoHist == [op |-> "", val |-> 0]

\* summarize not called; the collection not used.
ConflictOff ==
  /\ conflict_strategy = "ask" /\ exists = [r \in Repos |-> FALSE]
  /\ sr = [r \in Repos |-> SrIdle] /\ conflict_lock = Unlocked
CollectionOff ==
  /\ disk = [i \in Ids |-> 0] /\ res_cache = [i \in Ids |-> NoKey]
  /\ all_cached = FALSE /\ cwd_in_path = FALSE
  /\ hist = [i \in Ids |-> NoHist] /\ last = NoOp

Init ==
  /\ remote = <<>>
  /\ readme \in BOOLEAN
  /\ get_by_key \in BOOLEAN
  /\ cached_list = Unset
  /\ init_calls = 0
  /\ init_fails = 0
  /\ co = [t \in Tasks |-> Idle]
  /\ FilesOff /\ PropsOff /\ ConflictOff /\ CollectionOff

\* Somebody pushes a commit (creates a tag, a repository): the provider's
\* listing gets a new first item.
Push ==
  /\ Len(remote) < MaxLen
  /\ remote' = <<Len(remote) + 1>> \o remote
  /\ UNCHANGED <<readme, get_by_key, cached_list, init_calls, init_fails, co>>
  /\ UNCHANGED <<fvars, pvars, cvars, rvars>>

\* The effect of a handler's reads of _list, in order, on the adapter and on
\* the counters of factory invocations.
Reads(accs) ==
  /\ cached_list' = accs[Len(accs)].cache
  /\ init_calls' = init_calls + accs[1].called
                     + (IF Len(accs) > 1 THEN accs[Len(accs)].called ELSE 0)
  /\ init_fails' = init_fails
       + (IF accs[1].err # NoError THEN 1 ELSE 0)
       + (IF Len(accs) > 1 /\ accs[Len(accs)].err # NoError THEN 1 ELSE 0)

\* The factory is invoked only while its invocations are still counted.
CanInit == cached_list.set \/ init_calls < MaxInit

\* History: the exception the provider raised in the coroutine's last call.
Note(c, e) == [c EXCEPT !.raised = e]

\* len(adapter)
Length(t) ==
  /\ co[t].pc = "idle"
  /\ CanInit
  /\ \E f1, f2 \in Outcomes :
       LET acc == ListAccess(cached_list, remote, f1)
       IN /\ co' = [co EXCEPT ![t] =
                      Note(LenResult([Idle EXCEPT !.op = "length"], acc, f2),
                           IF acc.err # NoError THEN acc.err ELSE f2)]
          /\ Reads(<<acc>>)
  /\ UNCHANGED <<remote, readme, get_by_key>>
  /\ UNCHANGED <<fvars, pvars, cvars, rvars>>

\* await adapter.get(i)
GetInt(t) ==
  /\ co[t].pc = "idle"
  /\ CanInit
  /\ \E i \in 0..MaxLen, f \in Outcomes :
       LET acc == ListAccess(cached_list, remote, f)
       IN /\ co' = [co EXCEPT ![t] =
                      Note(GetStart([Idle EXCEPT !.op = "get", !.idx = i],
                                    TRUE, get_by_key, acc), acc.err)]
          /\ Reads(<<acc>>)
  /\ UNCHANGED <<remote, readme, get_by_key>>
  /\ UNCHANGED <<fvars, pvars, cvars, rvars>>

\* await adapter.get("key"): _list is not read.
GetStr(t) ==
  /\ co[t].pc = "idle"
  /\ \E k \in Keys :
       LET acc == StrKeyAccess(cached_list, remote)
       IN /\ co' = [co EXCEPT ![t] =
                      GetStart([Idle EXCEPT !.op = "get", !.skey = k], FALSE,
                               get_by_key, acc)]
          /\ Reads(<<acc>>)
  /\ UNCHANGED <<remote, readme, get_by_key>>
  /\ UNCHANGED <<fvars, pvars, cvars, rvars>>

\* await adapter.slice(start, stop)
Slice(t) ==
  /\ co[t].pc = "idle"
  /\ CanInit
  /\ \E a, b \in 0..MaxLen, f \in Outcomes :
       LET acc == ListAccess(cached_list, remote, f)
       IN /\ co' = [co EXCEPT ![t] =
                      Note(SliceStart([Idle EXCEPT !.op = "slice", !.start = a,
                                                   !.stop = b], acc), acc.err)]
          /\ Reads(<<acc>>)
  /\ UNCHANGED <<remote, readme, get_by_key>>
  /\ UNCHANGED <<fvars, pvars, cvars, rvars>>

\* await adapter.all()
All(t) ==
  /\ co[t].pc = "idle"
  /\ CanInit
  /\ \E f1, f2, f3 \in Outcomes :
       LET acc == ListAccess(cached_list, remote, f1)
           acc2 == ListAccess(acc.cache, remote, f2)
           ok == acc.err = NoError
       IN /\ co' = [co EXCEPT ![t] =
                      Note(AllStart([Idle EXCEPT !.op = "all"], acc, acc2, f3),
                           IF ~ok THEN acc.err
                           ELSE IF acc2.err # NoError THEN acc2.err ELSE f3)]
          /\ Reads(IF ok THEN <<acc, acc2>> ELSE <<acc>>)
  /\ UNCHANGED <<remote, readme, get_by_key>>
  /\ UNCHANGED <<fvars, pvars, cvars, rvars>>

\* async for model in adapter
Iterate(t) ==
  /\ co[t].pc = "idle"
  /\ CanInit
  /\ \E f \in Outcomes :
       LET acc == ListAccess(cached_list, remote, f)
       IN /\ co' = [co EXCEPT ![t] =
                      Note(IterStart([Idle EXCEPT !.op = "iter"], acc), acc.err)]
          /\ Reads(<<acc>>)
  /\ UNCHANGED <<remote, readme, get_by_key>>
  /\ UNCHANGED <<fvars, pvars, cvars, rvars>>

\* await repo.get_readme()
GetReadme(t) ==
  /\ co[t].pc = "idle"
  /\ co' = [co EXCEPT ![t] =
              ToThread([Idle EXCEPT !.op = "get_readme"], "get_readme", <<>>, <<>>, <<>>)]
  /\ UNCHANGED <<remote, readme, get_by_key, cached_list, init_calls, init_fails>>
  /\ UNCHANGED <<fvars, pvars, cvars, rvars>>

\* await client.get_user()
GetUser(t) ==
  /\ co[t].pc = "idle"
  /\ co' = [co EXCEPT ![t] =
              ToThread([Idle EXCEPT !.op = "get_user"], "get_user", <<>>, <<>>, <<>>)]
  /\ UNCHANGED <<remote, readme, get_by_key, cached_list, init_calls, init_fails>>
  /\ UNCHANGED <<fvars, pvars, cvars, rvars>>

\* The position of the iterator an iteration advances: items = iter(self._list)
\* is a local of the __aiter__ call, so each iteration has its own.
\* (faulty variant: one iterator kept on the adapter, advanced by every
\* iteration)
CursorShared(c) ==
  (IF co["c1"].op = "iter" THEN co["c1"].pos ELSE 0)
    + (IF co["c2"].op = "iter" THEN co["c2"].pos ELSE 0)

Cursor(c) == c.pos

\* The blocking call the worker thread runs for coroutine c: it raises fault if
\* the provider fails, else it answers from the list it was bound to (or, for
\* a lookup, from what the provider holds now).
WorkerCall(c, fault) ==
  IF fault # NoError THEN Raise(fault)
  ELSE CASE c.call = "__getitem__" /\ Len(c.args) = 1 -> RawGetItem(c.lst, c.args[1])
         [] c.call = "__getitem__" -> RawGetSlice(c.lst, c.args[1], c.args[2])
         [] c.call = "next" -> RawNext(c.lst, Cursor(c))
         [] c.call = "get_by_key" -> RawLookup(remote, c.skey)
         [] c.call = "get_readme" -> RawGetReadme(readme)
         [] OTHER -> Answer(<<RawUser>>)

\* The coroutine resumed with what its call gave back.
Resume(c, out) ==
  CASE c.op = "get" -> GetResume(c, out)
    [] c.op \in {"slice", "all"} -> SliceResume(c, out)
    [] c.op = "iter" -> IterResume(c, out)
    [] c.op = "get_readme" -> ReadmeResume(c, out)
    [] OTHER -> UserResume(c, out)

\* The call handed to the worker thread ends, answering or raising, and the
\* event loop resumes the coroutine awaiting it.
Complete(t) ==
  /\ co[t].pc = "await"
  /\ \E f \in Outcomes :
       LET out == WorkerCall(co[t], f)
       IN co' = [co EXCEPT ![t] = Note(Resume(co[t], out), out.err)]
  /\ UNCHANGED <<remote, readme, get_by_key, cached_list, init_calls, init_fails>>
  /\ UNCHANGED <<fvars, pvars, cvars, rvars>>

\* The caller takes the result (or the exception) and goes on.
Return(t) ==
  /\ co[t].pc = "done"
  /\ co' = [co EXCEPT ![t] = Idle]
  /\ UNCHANGED <<remote, readme, get_by_key, cached_list, init_calls, init_fails>>
  /\ UNCHANGED <<fvars, pvars, cvars, rvars>>

Next ==
  \/ Push
  \/ \E t \in Tasks :
       \/ Length(t) \/ GetInt(t) \/ GetStr(t) \/ Slice(t) \/ All(t) \/ Iterate(t)
       \/ GetReadme(t) \/ GetUser(t) \/ Complete(t) \/ Return(t)

Spec == Init /\ [][Next]_allvars

\* The adapter over a raw collection whose item type does not promise
\* truthiness (_TRaw is any record type a factory yields): the listing may
\* get one item that is falsy.
PushFalsy ==
  /\ Len(remote) < MaxLen
  /\ \A i \in 1..Len(remote) : remote[i] # FalsyRaw
  /\ remote' = <<FalsyRaw>> \o remote
  /\ UNCHANGED <<readme, get_by_key, cached_list, init_calls, init_fails, co>>
  /\ UNCHANGED <<fvars, pvars, cvars, rvars>>

NextStub == Next \/ PushFalsy

SpecStub == Init /\ [][NextStub]_allvars

\* One adapter never used, every coroutine idle.
AdapterOff ==
  /\ remote = <<>> /\ readme = FALSE /\ get_by_key = FALSE
  /\ cached_list = Unset /\ init_calls = 0 /\ init_fails = 0
  /\ co = [t \in Tasks |-> Idle]

\* ------------------------------------------------ Repo.get_files, the machine
\* The non-empty listings without repetition drawn from a set of entries.
Listings(entries) ==
  {l \in UNION {[1..k -> entries] : k \in 1..MaxEntries} :
     \A i, j \in DOMAIN l : i # j => l[i] # l[j]}

\* What the root directory and directory a may hold: directories, files and
\* an entry that is neither.
RootEntries ==
  {Entry("a", "dir"), Entry("b", "dir"), Entry("b.txt", "file"), Entry("link", "symlink")}
AEntries == {Entry("a/c.txt", "file"), Entry("a/d", "dir")}

Trees == [root : Listings(RootEntries), a : Listings(AEntries)]

InitFiles ==
  /\ AdapterOff /\ PropsOff /\ ConflictOff /\ CollectionOff
  /\ tree \in Trees /\ gen = GenIdle

\* The consumer asks for the first file: the generator starts.
FilesStart ==
  /\ gen.pc = "idle"
  /\ gen' = GetFilesStart(gen)
  /\ UNCHANGED <<tree, vars, pvars, cvars, rvars>>

\* The expansion call on the worker thread ends, answering or raising, and the
\* generator is resumed.
FilesExpand ==
  /\ gen.pc = "await"
  /\ Len(gen.expands) <= MaxExpand
  /\ \E f \in Outcomes :
       LET out == IF f # NoError THEN Raise(f)
                  ELSE RawGetDirContents(tree, gen.expands[Len(gen.expands)])
       IN gen' = ExpandResume(gen, out)
  /\ UNCHANGED <<tree, vars, pvars, cvars, rvars>>

\* The consumer, holding a file, asks for the next one.
FilesNext ==
  /\ gen.pc = "yield"
  /\ gen' = YieldNext(gen)
  /\ UNCHANGED <<tree, vars, pvars, cvars, rvars>>

\* The consumer, holding a file, stops consuming: the generator is never
\* resumed.
FilesClose ==
  /\ gen.pc = "yield"
  /\ gen' = [gen EXCEPT !.pc = "closed"]
  /\ UNCHANGED <<tree, vars, pvars, cvars, rvars>>

NextFiles == FilesStart \/ FilesExpand \/ FilesNext \/ FilesClose

SpecFiles == InitFiles /\ [][NextFiles]_allvars

\* The same with the scheduling the event loop gives: a call handed to a
\* worker thread ends and its coroutine is resumed, and a consumer that has
\* not stopped goes on consuming.
SpecFilesFair ==
  /\ SpecFiles
  /\ WF_allvars(FilesStart) /\ WF_allvars(FilesExpand) /\ WF_allvars(FilesNext)

\* ------------------------------------- collection properties of the facade
\* Repo.commits, Repo.tags, User.repos and Client.repos.
Props == {"Repo.commits", "Repo.tags", "User.repos", "Client.repos"}

\* _PaginationAdapter(init=..., model_type=..., get_by_key=...): a new
\* adapter; Repo.tags passes no get_by_key.
\* (faulty variant: the constructor calls the factory)
NewAdapterEager(prop) ==
  [prop |-> prop, get_by_key |-> prop # "Repo.tags",
   cached_list |-> [set |-> TRUE, items |-> RawPagination(remote)],
   init_calls |-> 1, init_fails |-> 0]

NewAdapter(prop) ==
  [prop |-> prop, get_by_key |-> prop # "Repo.tags", cached_list |-> Unset,
   init_calls |-> 0, init_fails |-> 0]

\* A read of a collection property (a plain @property): a new adapter is
\* built and returned.
\* (faulty variant: a cached property, the adapter built first is returned
\* again)
PropertyReadCached(built, prop) ==
  IF \E i \in 1..Len(built) : built[i].prop = prop
    THEN [adapters |-> built,
          handle |-> CHOOSE i \in 1..Len(built) : built[i].prop = prop]
    ELSE [adapters |-> Append(built, NewAdapter(prop)), handle |-> Len(built) + 1]

PropertyRead(built, prop) ==
  [adapters |-> Append(built, NewAdapter(prop)), handle |-> Len(built) + 1]

InitFacade == AdapterOff /\ FilesOff /\ PropsOff /\ ConflictOff /\ CollectionOff

\* A caller reads a collection property and keeps the adapter it returned.
ReadProperty(prop) ==
  /\ Len(reads) < MaxReads
  /\ LET r == PropertyRead(adapters, prop)
     IN /\ adapters' = r.adapters
        /\ reads' = Append(reads,
              [prop |-> prop, handle |-> r.handle, used |-> FALSE,
               fresh |-> ~r.adapters[r.handle].cached_list.set
                           /\ r.adapters[r.handle].init_calls = 0])
  /\ UNCHANGED <<vars, fvars, cvars, rvars>>

\* The caller uses the adapter of its k-th read: an operation reads _list.
UseAdapter(k) ==
  /\ adapters[reads[k].handle].cached_list.set
       \/ adapters[reads[k].handle].init_calls < MaxInit
  /\ \E f \in Outcomes :
       LET h == reads[k].handle
           a == adapters[h]
           acc == ListAccess(a.cached_list, remote, f)
       IN adapters' = [adapters EXCEPT ![h] =
            [a EXCEPT !.cached_list = acc.cache,
                      !.init_calls = a.init_calls + acc.called,
                      !.init_fails = a.init_fails
                                       + (IF acc.err # NoError THEN 1 ELSE 0)]]
  /\ reads' = [reads EXCEPT ![k].used = TRUE]
  /\ UNCHANGED <<vars, fvars, cvars, rvars>>

NextFacade ==
  \/ Push
  \/ \E prop \in Props : ReadProperty(prop)
  \/ \E k \in 1..Len(reads) : UseAdapter(k)

SpecFacade == InitFacade /\ [][NextFacade]_allvars

\* ------------------------------------------- ConflictStrategy._can_write
\* asyncio.Lock.acquire by task r: the lock is taken at once when it is free
\* and nobody waits for it, else the task queues.
\* (faulty variant: the prompt is not guarded by the lock)
AcquireNoLock(lock, r) == [lock |-> lock, granted |-> TRUE]

Acquire(lock, r) ==
  IF ~lock.locked /\ lock.waiters = <<>>
    THEN [lock |-> [lock EXCEPT !.locked = TRUE], granted |-> TRUE]
    ELSE [lock |-> [lock EXCEPT !.waiters = Append(lock.waiters, r)], granted |-> FALSE]

\* _can_write up to its first suspension.  OVERWRITE returns True at once;
\* else contains(id) is asked (it never suspends): a project that is not
\* there may be written, SKIP refuses one that is, ASK goes for the lock.
CanWriteStart(strategy, there, c) ==
  IF strategy = "overwrite" THEN [c EXCEPT !.pc = "done", !.can_write = TRUE]
  ELSE IF ~there THEN [c EXCEPT !.pc = "done", !.can_write = TRUE, !.checked = TRUE]
  ELSE IF strategy = "skip"
    THEN [c EXCEPT !.pc = "done", !.can_write = FALSE, !.checked = TRUE]
    ELSE [c EXCEPT !.pc = "acquire", !.checked = TRUE]

InitConflict ==
  /\ AdapterOff /\ FilesOff /\ PropsOff /\ CollectionOff
  /\ conflict_strategy \in {"overwrite", "skip", "ask"}
  /\ exists \in [Repos -> BOOLEAN]
  /\ sr = [r \in Repos |-> SrIdle]
  /\ conflict_lock = Unlocked

\* summarize_repo(r) starts and runs _can_write to its end or to its first
\* suspension: the prompt when it got the lock, else the lock's queue.
SrStart(r) ==
  /\ sr[r].pc = "idle"
  /\ LET c == CanWriteStart(conflict_strategy, exists[r], sr[r])
         a == Acquire(conflict_lock, r)
     IN IF c.pc = "acquire"
          THEN /\ sr' = [sr EXCEPT ![r] =
                          [c EXCEPT !.pc = IF a.granted THEN "prompt" ELSE "waiting"]]
               /\ conflict_lock' = a.lock
          ELSE sr' = [sr EXCEPT ![r] = c] /\ UNCHANGED conflict_lock
  /\ UNCHANGED <<conflict_strategy, exists, vars, fvars, pvars, rvars>>

\* The user answers the prompt of r; leaving `async with` releases the lock.
SrAnswer(r) ==
  /\ sr[r].pc = "prompt"
  /\ \E answer \in BOOLEAN :
       sr' = [sr EXCEPT ![r] = [@ EXCEPT !.pc = "done", !.can_write = answer]]
  /\ conflict_lock' = [conflict_lock EXCEPT !.locked = FALSE]
  /\ UNCHANGED <<conflict_strategy, exists, vars, fvars, pvars, rvars>>

\* The first waiter of the released lock is resumed and takes it.
SrWake(r) ==
  /\ sr[r].pc = "waiting"
  /\ ~conflict_lock.locked
  /\ conflict_lock.waiters # <<>> /\ Head(conflict_lock.waiters) = r
  /\ sr' = [sr EXCEPT ![r].pc = "prompt"]
  /\ conflict_lock' = [locked |-> TRUE, waiters |-> Tail(conflict_lock.waiters)]
  /\ UNCHANGED <<conflict_strategy, exists, vars, fvars, pvars, rvars>>

NextConflict == \E r \in Repos : SrStart(r) \/ SrAnswer(r) \/ SrWake(r)

SpecConflict == InitConflict /\ [][NextConflict]_allvars

\* ------------------------------------------------- ResourceCollection
\* contains(id): a cached entry answers without touching the disk; a missing
\* key is looked up with path.exists() and cached as None or _MISSING.
contains(cache, files, id) ==
  IF cache[id] # NoKey
    THEN [cache |-> cache, res |-> IF cache[id] # MISSING THEN 1 ELSE 0]
    ELSE LET there == files[id] # 0
         IN [cache |-> [cache EXCEPT ![id] = IF there THEN NoneEntry ELSE MISSING],
             res |-> IF there THEN 1 ELSE 0]

\* _read(id): the file loaded, or _MISSING on FileNotFoundError.
read(files, id) == IF files[id] # 0 THEN Loaded(files[id]) ELSE MISSING

\* get(id): self._cache.get(id) is None for a missing key and for a None
\* entry; only then the file is read and the outcome cached.  A cached
\* _MISSING raises KeyError, a cached resource is returned.
get(cache, files, id) ==
  LET hit == cache[id]
      resource == IF hit \in {NoKey, NoneEntry} THEN read(files, id) ELSE hit
      after == IF hit \in {NoKey, NoneEntry}
                 THEN [cache EXCEPT ![id] = resource] ELSE cache
  IN [cache |-> after,
      res |-> resource.val,
      err |-> IF resource = MISSING THEN "KeyError" ELSE ""]

\* glob under self.path: the ids that have a file.
glob(files) == {i \in Ids : files[i] # 0}

\* _cache_missing_ids: nothing once _all_cached is set.  Otherwise glob gives
\* paths relative to self.path and _get_id resolves each against the working
\* directory before relative_to(self.path): ValueError for the first path
\* unless the working directory is self.path.  Cached keys without a file
\* become _MISSING, files without a key become None.
cache_missing_ids(cache, done, files, in_path) ==
  IF done THEN [cache |-> cache, done |-> TRUE, err |-> ""]
  ELSE IF glob(files) # {} /\ ~in_path
    THEN [cache |-> cache, done |-> FALSE, err |-> "ValueError"]
  ELSE [cache |-> [i \in Ids |->
                     IF cache[i] # NoKey /\ i \notin glob(files) THEN MISSING
                     ELSE IF cache[i] = NoKey /\ i \in glob(files) THEN NoneEntry
                     ELSE cache[i]],
        done |-> TRUE, err |-> ""]

\* get_ids(): the keys of the cache that are not _MISSING.
get_ids(cache, done, files, in_path) ==
  LET c == cache_missing_ids(cache, done, files, in_path)
  IN [cache |-> c.cache, done |-> c.done, err |-> c.err,
      ids |-> IF c.err # "" THEN {}
              ELSE {i \in Ids : c.cache[i] \notin {NoKey, MISSING}}]

\* set(resource): the file is written; _cache and _all_cached are not touched.
set(files, id, v) == [files EXCEPT ![id] = v]

\* _delete_empty(path) after os.remove: os.listdir is called on the removed
\* file's path relative to self.path, resolved against the working directory.
\* In self.path that path is the file just removed: FileNotFoundError.
\* Elsewhere the outcome is the environment's: no such entry
\* (FileNotFoundError), or a directory of that name (the call returns).
delete_empty(in_path) == IF in_path THEN {"KeyError"} ELSE {"KeyError", ""}

\* delete(id): os.remove raises FileNotFoundError for an absent file, which
\* becomes KeyError; otherwise the file is removed and _delete_empty runs.
\* _cache and _all_cached are not touched.
delete(files, id, in_path) ==
  IF files[id] = 0
    THEN {[files |-> files, err |-> "KeyError", removed |-> FALSE]}
    ELSE {[files |-> [files EXCEPT ![id] = 0], err |-> e, removed |-> TRUE] :
            e \in delete_empty(in_path)}

\* A fresh collection over a directory that may already hold resources; the
\* working directory is the collection's directory or is not.
InitCollection ==
  /\ AdapterOff /\ FilesOff /\ PropsOff /\ ConflictOff
  /\ disk \in [Ids -> 0..MaxVer]
  /\ res_cache = [i \in Ids |-> NoKey]
  /\ all_cached = FALSE
  /\ cwd_in_path \in BOOLEAN
  /\ hist = [i \in Ids |-> NoHist]
  /\ last = NoOp

DoContains(i) ==
  /\ LET c == contains(res_cache, disk, i)
     IN /\ res_cache' = c.cache
        /\ last' = [NoOp EXCEPT !.op = "contains", !.id = i, !.res = c.res]
  /\ UNCHANGED <<disk, all_cached, cwd_in_path, hist, vars, fvars, pvars, cvars>>

DoGet(i) ==
  /\ LET g == get(res_cache, disk, i)
     IN /\ res_cache' = g.cache
        /\ last' = [NoOp EXCEPT !.op = "get", !.id = i, !.res = g.res, !.err = g.err]
  /\ UNCHANGED <<disk, all_cached, cwd_in_path, hist, vars, fvars, pvars, cvars>>

DoGetIds ==
  /\ LET g == get_ids(res_cache, all_cached, disk, cwd_in_path)
     IN /\ res_cache' = g.cache
        /\ all_cached' = g.done
        /\ last' = [NoOp EXCEPT !.op = "get_ids", !.ids = g.ids, !.err = g.err]
  /\ UNCHANGED <<disk, cwd_in_path, hist, vars, fvars, pvars, cvars>>

DoSet(i) ==
  /\ \E v \in Vers :
       /\ disk' = set(disk, i, v)
       /\ hist' = [hist EXCEPT ![i] = [op |-> "set", val |-> v]]
       /\ last' = [NoOp EXCEPT !.op = "set", !.id = i, !.res = v]
  /\ UNCHANGED <<res_cache, all_cached, cwd_in_path, vars, fvars, pvars, cvars>>

\* hist records a delete that returned as "delete" and one that removed the
\* file and then raised as "removed"; a delete of an absent file changes
\* nothing.
DoDelete(i) ==
  /\ \E d \in delete(disk, i, cwd_in_path) :
       /\ disk' = d.files
       /\ hist' = IF ~d.removed THEN hist
                  ELSE [hist EXCEPT ![i] =
                         [op |-> IF d.err = "" THEN "delete" ELSE "removed",
                          val |-> 0]]
       /\ last' = [NoOp EXCEPT !.op = "delete", !.id = i, !.err = d.err,
                                !.res = IF d.removed THEN 1 ELSE 0]
  /\ UNCHANGED <<res_cache, all_cached, cwd_in_path, vars, fvars, pvars, cvars>>

NextCollection ==
  \/ \E i \in Ids : DoContains(i) \/ DoGet(i) \/ DoSet(i) \/ DoDelete(i)
  \/ DoGetIds

SpecCollection == InitCollection /\ [][NextCollection]_allvars

\* ------------------------------------------------------------ properties
\* A coroutine whose operation op has returned a value.
Returned(t, op) == co[t].pc = "done" /\ co[t].op = op /\ co[t].err = NoError

\* The number of calls named call in a log.
Count(log, call) == Cardinality({i \in 1..Len(log) : log[i].call = call})

\* The calls of a log that ran on thread ctx.
On(log, ctx) == {i \in 1..Len(log) : log[i].ctx = ctx}

\* C1: the factory returns a list at most once per adapter, whatever
\* operations the coroutines interleave; when length() has returned the
\* factory has returned exactly once (and was invoked exactly once if it
\* never raised), and two length() calls return the same count.
C1_FactoryInvokedOnce ==
  /\ init_calls - init_fails <= 1
  /\ init_fails = 0 => init_calls <= 1
  /\ \A t \in Tasks : Returned(t, "length") => init_calls - init_fails = 1
  /\ \A t, u \in Tasks :
       Returned(t, "length") /\ Returned(u, "length") => co[t].count = co[u].count

\* C1 witness: both coroutines hold the result of length(), the factory never
\* raised, and the provider's listing has grown since the list was built.
C1_Witness ==
  /\ \A t \in Tasks : Returned(t, "length") /\ co[t].count = 1
  /\ init_fails = 0 /\ init_calls = 1
  /\ Len(remote) = 2

\* C2: every provider call length() makes (the factory when the list is
\* not yet memoized, and the count read) runs on a worker thread, none on the
\* event loop.
C2_LengthOffloaded ==
  \A t \in Tasks : co[t].op = "length" => On(co[t].log, "loop") = {}

\* A get() with a string key.
StrGet(t) == co[t].op = "get" /\ co[t].skey # ""

IsNotFound(e) == e.exc = "UnknownObjectException" /\ e.status = HTTP_NOT_FOUND

\* C4: when the key lookup of get("key") signals the provider's not-found
\* condition, the caller gets NotFoundError and not the provider's exception.
C4_NotFoundError ==
  \A t \in Tasks :
    StrGet(t) /\ get_by_key /\ co[t].pc = "done" /\ IsNotFound(co[t].raised)
      => co[t].err.exc = "NotFoundError"

\* The operations C5 is about.
C5_Ops == {"get", "slice", "length", "get_readme", "get_user"}

C6_GetSliceIterAgree ==
  \A t, u \in Tasks : \A i \in 0..(Len(cached_list.items) - 1) :
    LET n == Len(cached_list.items)
        got == Returned(t, "get") /\ co[t].idx = i
        sliced(v) == Returned(v, "slice") /\ co[v].start = 0 /\ co[v].stop = n
        iterated(v) == Returned(v, "iter")
    IN /\ got /\ sliced(u) => Len(co[u].ret) = n /\ co[t].ret[1] = co[u].ret[i + 1]
       /\ got /\ iterated(u) => Len(co[u].ret) = n /\ co[t].ret[1] = co[u].ret[i + 1]
       /\ sliced(t) /\ iterated(u)
            => /\ Len(co[t].ret) = n /\ Len(co[u].ret) = n
               /\ co[t].ret[i + 1] = co[u].ret[i + 1]

\* C6 witness: slice(0, 2) and a full iteration of a two-item list have both
\* returned.
C6_Witness ==
  \E t, u \in Tasks :
    /\ Len(cached_list.items) = 2
    /\ Returned(t, "slice") /\ co[t].start = 0 /\ co[t].stop = 2
    /\ Returned(u, "iter") /\ Len(co[u].ret) = 2

\* C7: slice(k, k) returns the empty sequence and maps nothing.
C7_EmptySlice ==
  \A t \in Tasks :
    Returned(t, "slice") /\ co[t].start = co[t].stop
      => co[t].ret = <<>> /\ co[t].maps = 0

\* C7 witness: slice(1, 1) returned on a list that has an item at position 1.
C7_Witness ==
  \E t \in Tasks :
    /\ Returned(t, "slice") /\ co[t].start = 1 /\ co[t].stop = 1
    /\ Len(co[t].lst) = 2

\* C8: slice(start, stop) with start <= stop returns the models of the items
\* at positions start .. stop-1 of the memoized list, in order, cut at the end
\* of the list, each mapped once, after exactly one call on a worker thread.
C8_SliceHalfOpen ==
  \A t \in Tasks :
    Returned(t, "slice") /\ co[t].start <= co[t].stop
      => LET lst == cached_list.items
             hi == IF co[t].stop < Len(lst) THEN co[t].stop ELSE Len(lst)
             k == IF hi > co[t].start THEN hi - co[t].start ELSE 0
         IN /\ Len(co[t].ret) = k
            /\ \A j \in 1..k : co[t].ret[j] = from_raw(lst[co[t].start + j])
            /\ co[t].maps = k
            /\ Cardinality(On(co[t].log, "worker")) = 1
            /\ co[t].log[Len(co[t].log)] = Call("__getitem__", "worker")

\* C8 witness: slice(1, 2) of a two-item list returned its second item alone.
C8_Witness ==
  \E t \in Tasks :
    /\ Returned(t, "slice") /\ co[t].start = 1 /\ co[t].stop = 2
    /\ cached_list.items = <<2, 1>>
    /\ co[t].ret = <<from_raw(1)>>

\* C9: an iteration that ends without error has yielded the model of every
\* item of the list, in the list's order, each once, and while it runs it has
\* yielded exactly the items before its cursor.
C9_IterationYieldsAll ==
  \A t \in Tasks :
    co[t].op = "iter" /\ co[t].err = NoError /\ co[t].pc # "idle"
      => /\ co[t].lst = cached_list.items
         /\ co[t].ret = MapAll(SubSeq(co[t].lst, 1, co[t].pos))
         /\ co[t].maps = co[t].pos
         /\ co[t].pc = "done"
              => /\ co[t].pos = Len(co[t].lst)
                 /\ Count(co[t].log, "next") = Len(co[t].lst) + 1

\* C9 witness: an iteration of a two-item list has ended without error.
C9_Witness ==
  \E t \in Tasks :
    /\ Returned(t, "iter")
    /\ co[t].lst = <<2, 1>>
    /\ co[t].ret = <<from_raw(2), from_raw(1)>>

\* An iteration whose advance of the cursor raised.
AdvanceFailed(t) ==
  /\ co[t].op = "iter" /\ co[t].raised # NoError
  /\ co[t].log # <<>> /\ co[t].log[Len(co[t].log)].call = "next"

\* C10: when an advance of the cursor raises, the iteration is over with that
\* exception; what it yielded is exactly the items before the failed one.
C10_IterationStopsOnError ==
  \A t \in Tasks :
    AdvanceFailed(t)
      => /\ co[t].pc = "done"
         /\ co[t].err = co[t].raised
         /\ co[t].ret = MapAll(SubSeq(co[t].lst, 1, co[t].pos))

\* C10 witness: the second advance over a two-item list raised; one model had
\* been yielded, and the items at positions 1 and 2 never were.
C10_Witness ==
  \E t \in Tasks :
    /\ AdvanceFailed(t) /\ co[t].pc = "done"
    /\ Len(co[t].lst) = 2 /\ co[t].pos = 1 /\ Len(co[t].ret) = 1

\* A coroutine whose call on the raw collection was handed to a worker thread.
OnList(c) == c.pc # "idle" /\ c.call \in {"__getitem__", "next"}

ReadmeDone(t) == co[t].op = "get_readme" /\ co[t].pc = "done"

\* C13: when the provider's readme lookup raises the not-found condition,
\* get_readme() is over without an exception and its result is None (no File).
C13_ReadmeNotFoundIsNone ==
  \A t \in Tasks :
    co[t].op = "get_readme" /\ IsNotFound(co[t].raised)
      => co[t].pc = "done" /\ co[t].err = NoError /\ co[t].ret = <<>>

\* C13 witness: get_readme() on a repository without a readme returned None
\* after its one lookup on a worker thread raised not-found.
C13_Witness ==
  \E t \in Tasks :
    /\ ReadmeDone(t) /\ ~readme /\ co[t].raised = UnknownObjectException
    /\ co[t].err = NoError /\ co[t].ret = <<>>
    /\ co[t].log = <<Call("get_readme", "worker")>>

\* C14: when the readme lookup raises anything but the not-found condition,
\* get_readme() raises that very exception; it returns None only when the
\* lookup raised not-found, and the File of the readme when it raised nothing.
C14_ReadmeReraisesOthers ==
  \A t \in Tasks :
    ReadmeDone(t)
      => /\ co[t].raised # NoError /\ ~IsNotFound(co[t].raised)
              => co[t].err = co[t].raised /\ co[t].ret = <<>>
         /\ co[t].err = NoError /\ co[t].ret = <<>> => IsNotFound(co[t].raised)
         /\ co[t].raised = NoError => co[t].ret = <<File(RawReadme)>>

\* C14 witness: the lookup failed with a fault on a repository that has a
\* readme, and the caller has the fault.
C14_Witness ==
  \E t \in Tasks :
    /\ ReadmeDone(t) /\ readme
    /\ co[t].raised = GithubException /\ co[t].err = GithubException

\* The operations C17 is about.
C17_Ops == {"get", "slice", "all", "iter", "get_readme", "get_user"}

\* C17: every provider call made during get, slice, all, iteration,
\* get_readme and get_user (the factory on first access, the count all()
\* reads, each fetch, advance and lookup) ran on a worker thread, none on the
\* event loop.
C17_AllCallsOffloaded ==
  \A t \in Tasks : co[t].op \in C17_Ops => On(co[t].log, "loop") = {}

\* A coroutine iterating the adapter, no exception so far.
Iterating(t) == co[t].op = "iter" /\ co[t].pc # "idle" /\ co[t].err = NoError

Range(seq) == {seq[i] : i \in DOMAIN seq}
Reverse(seq) == [i \in 1..Len(seq) |-> seq[Len(seq) + 1 - i]]
Files(entries) == [i \in 1..Len(entries) |-> File(entries[i])]

\* The listing of a directory of the tree.
Listing(path) == RawGetDirContents(tree, path).raws

\* The directories of the tree: the root, and every entry of type dir in the
\* listing of a directory (the tree is at most three levels deep).
Below(dirs) ==
  dirs \cup {e.path : e \in {x \in UNION {Range(Listing(d)) : d \in dirs} : x.type = "dir"}}
TreeDirs == Below(Below(Below({""})))

\* The file entries of the tree.
TreeFiles == {e \in UNION {Range(Listing(d)) : d \in TreeDirs} : e.type = "file"}

\* The example tree: root [a (dir), b.txt], a [c.txt].
ExampleTree ==
  [root |-> <<Entry("a", "dir"), Entry("b.txt", "file")>>,
   a |-> <<Entry("a/c.txt", "file")>>]

\* C15: get_files never yields a file twice nor expands a directory twice,
\* and once fully consumed without an exception it has yielded every file of
\* the tree and made one expansion call per directory, the root included; on
\* the example tree that is b.txt and a/c.txt after two expansion calls.
C15_EveryFileOnce ==
  /\ Cardinality(Range(gen.yielded)) = Len(gen.yielded)
  /\ Cardinality(Range(gen.expands)) = Len(gen.expands)
  /\ gen.pc = "done" /\ gen.err = NoError
       => /\ Range(gen.yielded) = {File(e) : e \in TreeFiles}
          /\ Range(gen.expands) = TreeDirs
          /\ tree = ExampleTree
               => /\ Range(gen.yielded)
                       = {File(Entry("b.txt", "file")), File(Entry("a/c.txt", "file"))}
                  /\ Len(gen.expands) = 2

\* C15 witness: get_files on the example tree was consumed to its end.
C15_Witness ==
  /\ tree = ExampleTree /\ gen.pc = "done" /\ gen.err = NoError
  /\ Len(gen.yielded) = 2 /\ gen.expands = <<"", "a">>

\* The order a work list that is a stack expands the tree in: a directory,
\* then the subtrees of its directories, the one listed last first.
RECURSIVE Walk(_), WalkAll(_)
Walk(path) == <<path>> \o WalkAll(Reverse(DirPaths(Listing(path))))
WalkAll(dirs) == IF dirs = <<>> THEN <<>> ELSE Walk(Head(dirs)) \o WalkAll(Tail(dirs))

\* The files of a sequence of directories, in the provider's order.
RECURSIVE FilesIn(_)
FilesIn(dirs) ==
  IF dirs = <<>> THEN <<>>
  ELSE SelectSeq(Listing(Head(dirs)), LAMBDA e : e.type = "file") \o FilesIn(Tail(dirs))

\* The expansion calls that have answered.
Expanded ==
  IF gen.pc = "await" \/ gen.err # NoError
    THEN SubSeq(gen.expands, 1, Len(gen.expands) - 1)
    ELSE gen.expands

\* C16: the files yielded so far and those of the current directory still to
\* yield are the files of the expanded directories in the provider's order,
\* directory by directory, and the directories are expanded in the order of a
\* stack: the one pushed last is expanded next.
C16_ProviderOrderAndLifo ==
  /\ gen.yielded \o Files(gen.pending) = Files(FilesIn(Expanded))
  /\ gen.expands = SubSeq(Walk(""), 1, Len(gen.expands))

\* C16 witness: the root lists a before b, a lists d before c.txt; b was
\* expanded before a, and a/d right after a.
C16_Witness ==
  /\ tree.root = <<Entry("a", "dir"), Entry("b", "dir"), Entry("b.txt", "file")>>
  /\ tree.a = <<Entry("a/d", "dir"), Entry("a/c.txt", "file")>>
  /\ gen.pc = "done" /\ gen.err = NoError
  /\ gen.expands = <<"", "b", "a", "a/d">>
  /\ gen.yielded = Files(<<Entry("b.txt", "file"), Entry("b/e.txt", "file"),
                           Entry("a/c.txt", "file"), Entry("a/d/f.txt", "file")>>)

\* C20: an expansion call is in flight only when every file of the
\* directories expanded before it has been yielded, and a consumer that holds
\* a file, or has stopped consuming, holds a file of the directory expanded
\* last: no expansion call was issued after it.
C20_Lazy ==
  /\ gen.pc = "await"
       => gen.pending = <<>> /\ Len(gen.yielded) = Len(FilesIn(Expanded))
  /\ gen.pc \in {"yield", "closed"}
       => /\ gen.expands # <<>> /\ gen.yielded # <<>>
          /\ gen.yielded[Len(gen.yielded)]
               \in Range(Files(Listing(gen.expands[Len(gen.expands)])))

\* C20 witness: the consumer stopped after the first file of the root while
\* two directories were still on the work list; only the root was expanded.
C20_Witness ==
  /\ gen.pc = "closed" /\ Len(gen.paths) = 2
  /\ gen.expands = <<"">> /\ Len(gen.yielded) = 1 /\ gen.pending = <<>>

\* C12: every read of a collection property returned an adapter of that
\* property that no other read returned and that had no memoized collection
\* and no factory invocation behind it; an adapter not yet used still has
\* none, and one used without a factory failure has invoked its own factory
\* exactly once.
C12_FreshAdapterPerRead ==
  \A k \in 1..Len(reads) :
    LET a == adapters[reads[k].handle]
    IN /\ reads[k].fresh
       /\ a.prop = reads[k].prop
       /\ \A j \in 1..Len(reads) : j # k => reads[j].handle # reads[k].handle
       /\ ~reads[k].used => ~a.cached_list.set /\ a.init_calls = 0
       /\ reads[k].used /\ a.init_fails = 0 => a.cached_list.set /\ a.init_calls = 1

\* C12 witness: Repo.commits was read twice and both adapters were used, the
\* first before a push and the second after it: each invoked the factory once
\* and they hold different lists.
C12_Witness ==
  /\ Len(reads) = 2
  /\ reads[1].prop = "Repo.commits" /\ reads[2].prop = "Repo.commits"
  /\ reads[1].used /\ reads[2].used
  /\ adapters[reads[1].handle].init_calls = 1
  /\ adapters[reads[2].handle].init_calls = 1
  /\ adapters[reads[1].handle].cached_list.items = <<1>>
  /\ adapters[reads[2].handle].cached_list.items = <<2, 1>>

C22_GetFilesTerminates ==
  /\ <>(gen.pc \in {"done", "closed"})
  /\ [](Len(gen.expands) <= Cardinality(TreeDirs))
  /\ [](gen.pc = "done" /\ gen.err = NoError => gen.paths = <<>>)

\* C22 witness: get_files() ended after expanding the four directories of a
\* tree three levels deep.
C22_Witness ==
  /\ gen.pc = "done" /\ gen.err = NoError /\ gen.paths = <<>>
  /\ Len(gen.expands) = 4 /\ Cardinality(TreeDirs) = 4

\* The entries the tree lists anywhere.
TreeEntries == UNION {Range(Listing(d)) : d \in {"", "a", "b", "a/d"}}

\* C27: whatever the listings hold, every File yielded wraps an entry of type
\* file, and every path put on the work list or expanded is the root or the
\* path of an entry of type dir; an entry of another type is in neither.
C27_OnlyFilesAndDirs ==
  /\ \A i \in 1..Len(gen.yielded) : gen.yielded[i].wrapped.type = "file"
  /\ \A i \in 1..Len(gen.pending) : gen.pending[i].type = "file"
  /\ \A p \in Range(gen.paths) \cup Range(gen.expands) :
       p = "" \/ Entry(p, "dir") \in TreeEntries
  /\ \A e \in TreeEntries :
       e.type \notin {"file", "dir"}
         => /\ File(e) \notin Range(gen.yielded)
            /\ e.path \notin Range(gen.paths) \cup Range(gen.expands)

\* C27 witness: the root lists a symlink before a file and a directory;
\* get_files() ended having yielded the files and expanded the directory only.
C27_Witness ==
  /\ tree.root = <<Entry("link", "symlink"), Entry("b.txt", "file"), Entry("b", "dir")>>
  /\ gen.pc = "done" /\ gen.err = NoError
  /\ gen.expands = <<"", "b">>
  /\ gen.yielded = Files(<<Entry("b.txt", "file"), Entry("b/e.txt", "file")>>)

\* C23: a step of a get() with a string key, its start as well as the end of
\* its lookup, leaves the memoized list and the count of factory invocations
\* as they were and logs no factory call; without a key-lookup function the
\* get() is over at once with TypeError and an empty log.
C23_StrGetLeavesListAlone ==
  [][\A t \in Tasks :
       co'[t] # co[t] /\ co'[t].op = "get" /\ co'[t].skey # ""
         => /\ cached_list' = cached_list
            /\ init_calls' = init_calls /\ init_fails' = init_fails
            /\ Count(co'[t].log, "init") = 0
            /\ ~get_by_key
                 => co'[t].pc = "done" /\ co'[t].err = TypeError /\ co'[t].log = <<>>]_vars

\* C23 witness: get("key1") returned the item through the key lookup on an
\* adapter whose list was never built, although the provider holds items.
C23_Witness ==
  \E t \in Tasks :
    /\ Returned(t, "get") /\ co[t].skey = "key1" /\ co[t].ret = <<from_raw(1)>>
    /\ ~cached_list.set /\ init_calls = 0 /\ Len(remote) = 2
    /\ co[t].log = <<Call("get_by_key", "worker")>>

\* An operation in progress or over that reads the raw collection.
ReadsList(t) ==
  /\ co[t].pc # "idle"
  /\ co[t].op \in {"length", "slice", "all", "iter"} \/ (co[t].op = "get" /\ ~StrGet(t))

\* An operation that ended because the factory raised.
FactoryRaised(t) ==
  /\ ReadsList(t) /\ co[t].raised # NoError
  /\ co[t].log # <<>> /\ co[t].log[Len(co[t].log)].call = "init"

\* C24: the list is memoized exactly when one factory invocation has
\* returned, and while every invocation has raised nothing is memoized; an
\* operation whose factory invocation raised is over with that exception and
\* no result; and an operation that reads the collection without invoking the
\* factory found it memoized, so on an adapter still unconstructed the next
\* one invokes the factory again.
C24_FactoryFailureNotMemoized ==
  /\ cached_list.set <=> init_calls = init_fails + 1
  /\ ~cached_list.set <=> init_calls = init_fails
  /\ ~cached_list.set => cached_list.items = <<>>
  /\ \A t \in Tasks :
       /\ FactoryRaised(t)
            => /\ co[t].pc = "done" /\ co[t].err = co[t].raised
               /\ co[t].ret = <<>> /\ co[t].count = -1
       /\ ReadsList(t) /\ Count(co[t].log, "init") = 0 => cached_list.set

\* C24 witness: one coroutine's length() ended with the factory's exception,
\* and the other's length(), started on the adapter left unconstructed,
\* invoked the factory again and returned.
C24_Witness ==
  \E t, u \in Tasks :
    /\ FactoryRaised(t) /\ co[t].op = "length" /\ co[t].err = GithubException
    /\ Returned(u, "length") /\ Count(co[u].log, "init") = 1
    /\ init_calls = 2 /\ init_fails = 1 /\ cached_list.set

\* C25: an adapter whose factory was invoked, or that holds a memoized list,
\* is one that some caller has used: reading the property and constructing
\* the adapter invoke nothing, so while no read has been used no factory of
\* any adapter has been invoked.
C25_PropertyReadCallsNothing ==
  /\ \A i \in 1..Len(adapters) :
       adapters[i].init_calls > 0 \/ adapters[i].cached_list.set
         => \E k \in 1..Len(reads) : reads[k].handle = i /\ reads[k].used
  /\ (\A k \in 1..Len(reads) : ~reads[k].used)
       => \A i \in 1..Len(adapters) : adapters[i].init_calls = 0

\* C25 witness: two properties were read while the provider held two items;
\* the adapter that was used invoked its factory once, the other one, not
\* used, never.
C25_Witness ==
  /\ Len(reads) = 2 /\ Len(remote) = 2
  /\ reads[1].prop = "Repo.tags" /\ reads[2].prop = "Client.repos"
  /\ ~reads[1].used /\ adapters[reads[1].handle].init_calls = 0
  /\ ~adapters[reads[1].handle].cached_list.set
  /\ reads[2].used /\ adapters[reads[2].handle].init_calls = 1
  /\ adapters[reads[2].handle].cached_list.items = <<2, 1>>

\* C26: all() returns the models of the whole memoized list, in order, each
\* mapped once, fetched as the slice from 0 to the count length() reads; so
\* it equals what slice(0, n) and a full iteration return on that adapter,
\* and its length is what length() returns.
C26_AllIsSliceIsIteration ==
  \A t, u \in Tasks :
    Returned(t, "all")
      => LET n == Len(cached_list.items)
         IN /\ co[t].args = <<0, n>>
            /\ co[t].ret = MapAll(cached_list.items)
            /\ co[t].maps = n
            /\ Count(co[t].log, "totalCount") = 1
            /\ Returned(u, "slice") /\ co[u].start = 0 /\ co[u].stop = n
                 => co[u].ret = co[t].ret
            /\ Returned(u, "iter") => co[u].ret = co[t].ret
            /\ Returned(u, "length") => co[u].count = Len(co[t].ret)

\* C26 witness: all() and a full iteration both returned the two models of a
\* two-item list.
C26_Witness ==
  \E t, u \in Tasks :
    /\ Returned(t, "all") /\ co[t].ret = <<from_raw(2), from_raw(1)>>
    /\ Returned(u, "iter") /\ co[u].ret = <<from_raw(2), from_raw(1)>>

\* The summarize_repo tasks whose overwrite prompt is on the screen.
Prompting == {r \in Repos : sr[r].pc = "prompt"}

\* C28: at most one prompt is active at any time, and the task showing it
\* holds the lock; with OVERWRITE every task that started may write and never
\* asked whether the project exists; with SKIP a task may write exactly when
\* its project was reported absent; with ASK only a task whose project
\* exists prompts or waits, and one whose project is absent may write.
C28_PromptsSerialised ==
  /\ Cardinality(Prompting) <= 1
  /\ Prompting # {} => conflict_lock.locked
  /\ \A r \in Repos :
       sr[r].pc # "idle"
         => /\ conflict_strategy = "overwrite"
                 => sr[r].pc = "done" /\ sr[r].can_write /\ ~sr[r].checked
            /\ conflict_strategy = "skip"
                 => sr[r].pc = "done" /\ sr[r].checked /\ sr[r].can_write = ~exists[r]
            /\ conflict_strategy = "ask"
                 => /\ sr[r].pc \in {"prompt", "waiting"} => exists[r]
                    /\ ~exists[r] => sr[r].pc = "done" /\ sr[r].can_write

\* C28 witness: with ASK and three existing projects one task prompts and the
\* two others wait for the lock.
C28_Witness ==
  /\ conflict_strategy = "ask"
  /\ Cardinality(Prompting) = 1
  /\ Len(conflict_lock.waiters) = 2
  /\ \A r \in Repos : exists[r] /\ sr[r].pc \in {"prompt", "waiting"}

\* C29: after set(r) has completed for an id (and no delete of it since),
\* contains(id) answers true and get(id) returns r without raising, whatever
\* was called on the collection before the set.
C29_SetIsVisible ==
  \A i \in Ids :
    (hist[i].op = "set" /\ last.id = i) =>
      /\ last.op = "contains" => last.res = 1
      /\ last.op = "get" => (last.err = "" /\ last.res = hist[i].val)

\* C30: after delete(id) has returned (and no set of it since), contains(id)
\* answers false, get(id) raises KeyError and get_ids() does not list id,
\* whatever was called before the delete; a delete of an id that has no file
\* raises KeyError.
C30_DeleteIsVisible ==
  /\ \A i \in Ids :
       hist[i].op = "delete" =>
         /\ (last.op = "contains" /\ last.id = i) => last.res = 0
         /\ (last.op = "get" /\ last.id = i) => last.err = "KeyError"
         /\ last.op = "get_ids" => i \notin last.ids
  /\ (last.op = "delete" /\ last.res = 0) => last.err = "KeyError"

====
